---- MODULE Spec2Model ----
(***************************************************************************)
(* A model of github.com/a-h/natsjson: the batch processor (batch.go) over *)
(* a JetStream durable pull consumer, and the typed key/value layer        *)
(* (kv.go) over a JetStream key/value bucket.                              *)
(*                                                                         *)
(* The broker is not part of the repository.  It is modelled at the calls  *)
(* the code makes (Fetch, Ack, Nak; Get, Put, Update, Delete, ...) with    *)
(* the behaviour of nats.go v1.31.0 / nats-server v2.10.3 (go.mod): an     *)
(* explicit-ack consumer that serves its redelivery queue before new       *)
(* messages, and a bucket whose revisions are the sequence numbers of the  *)
(* one stream that backs the whole bucket.                                 *)
(***************************************************************************)
EXTENDS Naturals, Sequences, FiniteSets

(***************************************************************************)
(* Bounds of the model.                                                    *)
(***************************************************************************)
\* Messages published to the stream.
MaxMsgs == 3
\* Entries (puts, updates and delete markers) written to the bucket.
MaxRevs == 3
\* History of the bucket's KeyValueConfig: the entries the broker keeps per
\* key (10 in the tests).
HistoryDepth == 2
\* The batchSize a processor may be built with (10 in the tests).
BatchSizes == {1, 2}

VARIABLES
    \* ---- the stream and its durable consumer (broker side) ----
    stream,       \* the published payloads, by stream sequence 1..Len(stream)
    nextSeq,      \* next stream sequence the consumer has not delivered yet
    rdq,          \* sequences queued for redelivery, first to be served first
    outstanding,  \* sequences delivered and waiting for an Ack or a Nak
    acked,        \* sequences acknowledged: never delivered again
    \* ---- what the callers of Process observed ----
    batchSize,    \* the batchSize of the processors on this consumer
    last,         \* the last Process invocation (see ProcessRun), or NoRun
    clean,        \* so far every fetched message decoded and every handler
                  \* returned one nil per message
    handled,      \* what the handlers were given, concatenated over all
                  \* calls, for as long as clean holds
    ackOk,        \* sequences of the messages whose Ack call returned nil
    \* ---- the key/value bucket (broker side) and the callers of KV ----
    bucket,       \* the stream backing the bucket, by revision 1..Len(bucket)
    upd,          \* per caller: the Update call in flight, or idle
    kvres,        \* the last KV operation that returned, with its result
    \* ---- the Iterator returned by List and the watcher behind it ----
    it,           \* the Iterator: its fields, the updates channel of its
                  \* watcher, and what its caller has seen of it
    snap,         \* the bucket as it was when List was called
    emitted       \* the values Next has yielded, in order

bvars == <<stream, nextSeq, rdq, outstanding, acked, batchSize, last, clean,
           handled, ackOk>>
lvars == <<it, snap, emitted>>
kvars == <<bucket, upd, kvres, lvars>>
vars == <<bvars, kvars>>

(***************************************************************************)
(* JSON.  A BatchMessage{Index} is published as the bytes {"Index":i},     *)
(* modelled as the pair <<"Index", i>>; anything else does not decode.     *)
(***************************************************************************)
Indexes == 0..(MaxMsgs - 1)
BatchMessage == [Index : Indexes]
Marshal(v) == <<"Index", v.Index>>
Garbage == <<"{ _this_is_not_json_ }">>
Payloads == {Marshal(v) : v \in BatchMessage} \cup {Garbage}

UnmarshalDropsValue(data) ==
    IF Len(data) = 2 /\ data[1] = "Index"
    THEN [ok |-> TRUE, v |-> [Index |-> 0]]
    ELSE [ok |-> FALSE, v |-> [Index |-> 0]]
\* json.Unmarshal(msg.Data(), &fr): the decoded value, or an error that
\* leaves the zero value.
Unmarshal(data) ==
    IF Len(data) = 2 /\ data[1] = "Index" /\ data[2] \in Indexes
    THEN [ok |-> TRUE, v |-> [Index |-> data[2]]]
    ELSE [ok |-> FALSE, v |-> [Index |-> 0]]

(***************************************************************************)
(* Helpers on sequences.                                                   *)
(***************************************************************************)
Min(a, b) == IF a < b THEN a ELSE b
Range(s) == {s[i] : i \in 1..Len(s)}
Interval(a, b) == [i \in 1..(IF b >= a THEN b - a + 1 ELSE 0) |-> a + i - 1]
Ev(op, msg, ok) == [op |-> op, msg |-> msg, ok |-> ok]
\* The elements of a finite set of numbers, in increasing order.
RECURSIVE SortedSeq(_)
SortedSeq(S) ==
    IF S = {} THEN <<>>
    ELSE LET lo == CHOOSE x \in S : \A y \in S : x <= y
         IN  <<lo>> \o SortedSeq(S \ {lo})

(***************************************************************************)
(* The consumer, as Process uses it.                                       *)
(***************************************************************************)
\* What the consumer has to deliver: its redelivery queue, then the
\* messages of the stream it has not delivered yet.
Deliverable == rdq \o Interval(nextSeq, Len(stream))

\* b.consumer.Fetch(b.batchSize, b.fetchOpts...): up to n messages, in the
\* order the consumer delivers them.
Fetch(n) == SubSeq(Deliverable, 1, Min(n, Len(Deliverable)))

\* The results a handler may return for n messages: one outcome per message
\* ("nil" or "err"), or a slice that is one too short or one too long (whose
\* elements Process never reads). Nothing is returned for no message.
Outcomes(n) ==
    IF n = 0 THEN {<<>>}
    ELSE [1..n -> {"nil", "err"}]
             \cup {[i \in 1..(n - 1) |-> "nil"], [i \in 1..(n + 1) |-> "nil"]}

(***************************************************************************)
(* BatchProcessor.Process, step by step.  mb is the fetched batch (stream  *)
(* sequences), ackFail the messages whose Ack or Nak call returns an       *)
(* error, errs the slice the handler returns, hook whether ErrorHandler    *)
(* is set.                                                                 *)
(***************************************************************************)
NoDecode == [msgs |-> <<>>, msgBodies |-> <<>>, events |-> <<>>, abort |-> FALSE]

RECURSIVE DecodeLoopKeepsPoison(_, _, _, _)
DecodeLoopKeepsPoison(mb, i, st, ackFail) ==
    IF i > Len(mb) THEN st
    ELSE LET msg == mb[i]
             fr == Unmarshal(stream[msg])
         IN  IF ~fr.ok /\ msg \in ackFail
             THEN [st EXCEPT !.events = Append(@, Ev("Ack", msg, FALSE)),
                             !.abort = TRUE]
             ELSE DecodeLoopKeepsPoison(mb, i + 1,
                      [st EXCEPT !.events = IF fr.ok THEN @
                                            ELSE Append(@, Ev("Ack", msg, TRUE)),
                                 !.msgBodies = Append(@, fr.v),
                                 !.msgs = Append(@, msg)],
                      ackFail)

RECURSIVE DecodeLoopNoAck(_, _, _, _)
DecodeLoopNoAck(mb, i, st, ackFail) ==
    IF i > Len(mb) THEN st
    ELSE LET msg == mb[i]
             fr == Unmarshal(stream[msg])
         IN  IF ~fr.ok
             THEN DecodeLoopNoAck(mb, i + 1, st, ackFail)
             ELSE DecodeLoopNoAck(mb, i + 1,
                      [st EXCEPT !.msgBodies = Append(@, fr.v),
                                 !.msgs = Append(@, msg)],
                      ackFail)

RECURSIVE DecodeLoopIgnoresAckError(_, _, _, _)
DecodeLoopIgnoresAckError(mb, i, st, ackFail) ==
    IF i > Len(mb) THEN st
    ELSE LET msg == mb[i]
             fr == Unmarshal(stream[msg])
         IN  IF ~fr.ok
             THEN DecodeLoopIgnoresAckError(mb, i + 1,
                      [st EXCEPT !.events =
                                     Append(@, Ev("Ack", msg, msg \notin ackFail))],
                      ackFail)
             ELSE DecodeLoopIgnoresAckError(mb, i + 1,
                      [st EXCEPT !.msgBodies = Append(@, fr.v),
                                 !.msgs = Append(@, msg)],
                      ackFail)

\* "Convert JSON messages to type": the loop over mb.Messages().
RECURSIVE DecodeLoop(_, _, _, _)
DecodeLoop(mb, i, st, ackFail) ==
    IF i > Len(mb) THEN st
    ELSE LET msg == mb[i]
             fr == Unmarshal(stream[msg])
         IN  IF ~fr.ok
             THEN IF msg \in ackFail
                  \* return errors.Join(unmarshalErr, ackErr)
                  THEN [st EXCEPT !.events = Append(@, Ev("Ack", msg, FALSE)),
                                  !.abort = TRUE]
                  \* continue
                  ELSE DecodeLoop(mb, i + 1,
                           [st EXCEPT !.events = Append(@, Ev("Ack", msg, TRUE))],
                           ackFail)
             ELSE DecodeLoop(mb, i + 1,
                      [st EXCEPT !.msgBodies = Append(@, fr.v),
                                 !.msgs = Append(@, msg)],
                      ackFail)

ResolveOpAlwaysAck(err) == "Ack"
\* op := msgs[i].Ack; if err != nil { ...; op = msgs[i].Nak }
ResolveOp(err) == IF err = "nil" THEN "Ack" ELSE "Nak"

RECURSIVE ResolveLoopNakBeforeHook(_, _, _, _, _, _)
ResolveLoopNakBeforeHook(msgs, errs, i, events, ackFail, hook) ==
    IF i > Len(errs) THEN events
    ELSE LET done == Append(events,
                            Ev(ResolveOp(errs[i]), msgs[i], msgs[i] \notin ackFail))
         IN  ResolveLoopNakBeforeHook(msgs, errs, i + 1,
                 IF errs[i] # "nil" /\ hook
                 THEN Append(done, Ev("Hook", msgs[i], TRUE))
                 ELSE done,
                 ackFail, hook)

RECURSIVE ResolveLoopHookSettles(_, _, _, _, _, _)
ResolveLoopHookSettles(msgs, errs, i, events, ackFail, hook) ==
    IF i > Len(errs) THEN events
    ELSE ResolveLoopHookSettles(msgs, errs, i + 1,
             IF errs[i] # "nil" /\ hook
             THEN Append(Append(events, Ev("Hook", msgs[i], TRUE)),
                         Ev("Ack", msgs[i], msgs[i] \notin ackFail))
             ELSE Append(events,
                         Ev(ResolveOp(errs[i]), msgs[i], msgs[i] \notin ackFail)),
             ackFail, hook)

RECURSIVE ResolveLoopStopsAtError(_, _, _, _, _, _)
ResolveLoopStopsAtError(msgs, errs, i, events, ackFail, hook) ==
    IF i > Len(errs) THEN events
    ELSE LET hooked == IF errs[i] # "nil" /\ hook
                       THEN Append(events, Ev("Hook", msgs[i], TRUE))
                       ELSE events
             done == Append(hooked,
                            Ev(ResolveOp(errs[i]), msgs[i], msgs[i] \notin ackFail))
         IN  IF msgs[i] \in ackFail THEN done
             ELSE ResolveLoopStopsAtError(msgs, errs, i + 1, done, ackFail, hook)

\* "Ack or nack messages based on their error state": the loop over errs.
RECURSIVE ResolveLoop(_, _, _, _, _, _)
ResolveLoop(msgs, errs, i, events, ackFail, hook) ==
    IF i > Len(errs) THEN events
    ELSE LET hooked == IF errs[i] # "nil" /\ hook
                       THEN Append(events, Ev("Hook", msgs[i], TRUE))
                       ELSE events
         IN  ResolveLoop(msgs, errs, i + 1,
                 Append(hooked,
                        Ev(ResolveOp(errs[i]), msgs[i], msgs[i] \notin ackFail)),
                 ackFail, hook)

\* errors.Join(nackAckErrs...): nil when every element is nil.
JoinErrs(events) ==
    IF \E i \in 1..Len(events) : ~events[i].ok THEN "AckNakError" ELSE "nil"

\* What a Process invocation did: the batch it fetched, the messages and
\* values it decoded, whether it invoked the handler and what the handler
\* returned, the calls it made in order, and the error it returned.
Run(mb, dec, called, errs, events, err) ==
    [fetched |-> mb, msgs |-> dec.msgs, msgBodies |-> dec.msgBodies,
     called |-> called, errs |-> errs, events |-> events, err |-> err]

NoRun == Run(<<>>, NoDecode, FALSE, <<>>, <<>>, "none")

ShortCircuitNever(dec) == FALSE
\* if len(msgs) == 0 { return nil }
ShortCircuit(dec) == Len(dec.msgs) = 0

LengthMismatchIfLonger(errs, msgs) == Len(errs) > Len(msgs)
\* if len(errs) != len(msgs)
LengthMismatch(errs, msgs) == Len(errs) # Len(msgs)

\* Process after a successful Fetch of mb.
ProcessRun(mb, errs, ackFail, hook) ==
    LET dec == DecodeLoop(mb, 1, NoDecode, ackFail)
        handlerEv == Append(dec.events, Ev("Handler", 0, TRUE))
    IN  IF dec.abort
        THEN Run(mb, dec, FALSE, <<>>, dec.events, "UnmarshalAckError")
        ELSE IF ShortCircuit(dec)
        THEN Run(mb, dec, FALSE, <<>>, dec.events, "nil")
        ELSE IF LengthMismatch(errs, dec.msgs)
        THEN Run(mb, dec, TRUE, errs, handlerEv, "HandlerContractError")
        ELSE LET events == ResolveLoop(dec.msgs, errs, 1, handlerEv, ackFail, hook)
                 resolve == SubSeq(events, Len(handlerEv) + 1, Len(events))
             IN  Run(mb, dec, TRUE, errs, events, JoinErrs(resolve))

(***************************************************************************)
(* What the consumer makes of the Acks and Naks that reached it.           *)
(***************************************************************************)
AckedOk(events) ==
    {events[i].msg : i \in {j \in 1..Len(events) :
                               events[j].op = "Ack" /\ events[j].ok}}
IsNakOk(e) == e.op = "Nak" /\ e.ok
NakedOk(events) ==
    LET n == SelectSeq(events, IsNakOk) IN [i \in 1..Len(n) |-> n[i].msg]
IsPoison(msg) == ~Unmarshal(stream[msg]).ok

\* The consumer after it delivered mb and received the run's Acks and Naks:
\* an Ack settles a message for good, a Nak queues it for redelivery, and a
\* message with neither stays outstanding until its ack wait expires.
Settle(mb, r) ==
    LET fromRdq == Min(Len(rdq), Len(mb))
    IN  /\ nextSeq' = nextSeq + (Len(mb) - fromRdq)
        /\ rdq' = SubSeq(rdq, fromRdq + 1, Len(rdq)) \o NakedOk(r.events)
        /\ outstanding' = (outstanding \cup Range(mb))
                              \ (AckedOk(r.events) \cup Range(NakedOk(r.events)))
        /\ acked' = acked \cup AckedOk(r.events)

\* What the callers observed of the run. handled is recorded while clean
\* holds and until it is longer than the stream.
Observe(r) ==
    LET ok == /\ clean
              /\ Len(r.errs) = Len(r.msgs)
              /\ \A i \in 1..Len(r.errs) : r.errs[i] = "nil"
              /\ \A m \in Range(r.fetched) : ~IsPoison(m)
    IN  /\ last' = r
        /\ clean' = ok
        /\ handled' = IF ~ok THEN <<>>
                      ELSE IF r.called /\ Len(handled) <= Len(stream)
                      THEN handled \o r.msgBodies
                      ELSE handled
        /\ ackOk' = ackOk \cup AckedOk(r.events)

(***************************************************************************)
(* The actions on the stream and its consumer.                             *)
(***************************************************************************)
\* Publisher.Publish(topic, v...): each value marshalled and published. As
\* in the tests, the i-th message of the stream carries Index i-1.
Publish ==
    /\ \E k \in 1..2 :
          /\ Len(stream) + k <= MaxMsgs
          /\ stream' = stream \o
                 [i \in 1..k |-> Marshal([Index |-> Len(stream) + i - 1])]
    /\ UNCHANGED <<nextSeq, rdq, outstanding, acked, batchSize, last, clean,
                   handled, ackOk, kvars>>

\* conn.Publish(topic, bytes) of bytes that are no JSON.
PublishGarbage ==
    /\ Len(stream) < MaxMsgs
    /\ stream' = Append(stream, Garbage)
    /\ UNCHANGED <<nextSeq, rdq, outstanding, acked, batchSize, last, clean,
                   handled, ackOk, kvars>>

\* Process when Fetch returns an error: nothing was delivered.
ProcessFetchError ==
    /\ Observe(Run(<<>>, NoDecode, FALSE, <<>>, <<>>, "FetchError"))
    /\ UNCHANGED <<stream, nextSeq, rdq, outstanding, acked, batchSize, kvars>>

\* Process: fetch, decode, dispatch, resolve.
Process ==
    /\ LET mb == Fetch(batchSize)
       IN  \E hook \in BOOLEAN, ackFail \in SUBSET Range(mb) :
             \E errs \in Outcomes(Len(DecodeLoop(mb, 1, NoDecode, ackFail).msgs)) :
                LET r == ProcessRun(mb, errs, ackFail, hook)
                IN  Settle(mb, r) /\ Observe(r)
    /\ UNCHANGED <<stream, batchSize, kvars>>

\* The ack wait of the delivered, unresolved messages expires: the consumer
\* queues them for redelivery, lowest stream sequence first.
AckWaitExpire ==
    /\ outstanding # {}
    /\ rdq' = rdq \o SortedSeq(outstanding)
    /\ outstanding' = {}
    /\ UNCHANGED <<stream, nextSeq, acked, batchSize, last, clean, handled,
                   ackOk, kvars>>

(***************************************************************************)
(* The key/value bucket.  The broker keeps one stream for the whole        *)
(* bucket: an entry's revision is its sequence in that stream, so the      *)
(* revisions of all keys are drawn from one counter.  Per subject it keeps *)
(* the last HistoryDepth entries, delete markers included; bucket keeps    *)
(* the dropped entries too, marked kept = FALSE, which the broker never    *)
(* reads.                                                                  *)
(***************************************************************************)
Keys == {"user1", "user5"}
Users == {[name |-> "john", age |-> 42], [name |-> "john", age |-> 43]}
ZeroUser == [name |-> "", age |-> 0]
Callers == {"c1", "c2"}

\* json.Marshal(value) of a User: {"name":...,"age":...}.
MarshalUser(v) == <<"name", v.name, "age", v.age>>
UnmarshalUserSwapsFields(data) ==
    IF Len(data) = 4 /\ data[1] = "name" /\ data[3] = "age"
    THEN [ok |-> TRUE, v |-> [name |-> data[2], age |-> 0]]
    ELSE [ok |-> FALSE, v |-> ZeroUser]
\* json.Unmarshal(entry.Value(), &value).
UnmarshalUser(data) ==
    IF Len(data) = 4 /\ data[1] = "name" /\ data[3] = "age"
    THEN [ok |-> TRUE, v |-> [name |-> data[2], age |-> data[4]]]
    ELSE [ok |-> FALSE, v |-> ZeroUser]

\* hex(sha256(key)).
Sha256Hex(key) ==
    CASE key = "user1" ->
           "0a041b9462caa4a31bac3567e0b6e6fd9100787db2ab433d96f6d178cabfce90"
      [] key = "user5" ->
           "5a39bead318f306939acb1d016647be2e38c6501c58367fdb3e9f52542aa2442"
keyToSubjectIgnoresKey(key) == <<"users", Sha256Hex("user1")>>
\* db.subject + "." + hex(sha256(key)), for the subject "users" of the tests.
keyToSubject(key) == <<"users", Sha256Hex(key)>>

Max(S) == CHOOSE x \in S : \A y \in S : y <= x
\* The sequences of the entries the broker holds for a subject.
SubjectSeqs(b, subj) == {i \in 1..Len(b) : b[i].kept /\ b[i].subj = subj}
\* The sequence of the last entry of a subject, 0 when it has none.
LastSubjectSeq(b, subj) ==
    IF SubjectSeqs(b, subj) = {} THEN 0 ELSE Max(SubjectSeqs(b, subj))

\* The broker stores a message: it takes the next sequence of the bucket's
\* stream, and the subject keeps its last HistoryDepth entries.
StoreMsg(b, subj, op, data) ==
    LET b1 == Append(b, [subj |-> subj, op |-> op, data |-> data, kept |-> TRUE])
        seqs == SubjectSeqs(b1, subj)
    IN  [i \in 1..Len(b1) |->
            IF i \in seqs /\ Cardinality({j \in seqs : j >= i}) > HistoryDepth
            THEN [b1[i] EXCEPT !.kept = FALSE]
            ELSE b1[i]]

NotFound == [err |-> "ErrKeyNotFound", rev |-> 0, data |-> <<>>]
Found(b, seq) == [err |-> "nil", rev |-> seq, data |-> b[seq].data]

BrokerGetReturnsMarker(b, subj) ==
    IF LastSubjectSeq(b, subj) = 0
    THEN NotFound
    ELSE Found(b, LastSubjectSeq(b, subj))
\* jetstream.KeyValue.Get: the last entry of the key, unless it is a delete
\* marker.
BrokerGet(b, subj) ==
    LET seq == LastSubjectSeq(b, subj)
    IN  IF seq = 0 \/ b[seq].op = "DEL" THEN NotFound ELSE Found(b, seq)

BrokerGetRevisionAnySubject(b, subj, revision) ==
    IF revision = 0 \/ revision > Len(b) \/ ~b[revision].kept
    THEN NotFound
    ELSE Found(b, revision)
\* jetstream.KeyValue.GetRevision: the entry with that sequence, when the
\* broker still holds it, it belongs to the key and is no delete marker;
\* revision 0 asks for the last entry.
BrokerGetRevision(b, subj, revision) ==
    IF revision = 0 THEN BrokerGet(b, subj)
    ELSE IF \/ revision \notin SubjectSeqs(b, subj)
            \/ b[revision].op = "DEL"
         THEN NotFound
         ELSE Found(b, revision)

BrokerHistoryNewestFirst(b, subj) ==
    LET seqs == SortedSeq(SubjectSeqs(b, subj))
        n == Len(seqs)
    IN  [err |-> IF n = 0 THEN "ErrKeyNotFound" ELSE "nil",
         entries |-> [i \in 1..n |-> Found(b, seqs[n + 1 - i])]]
\* jetstream.KeyValue.History: every entry held for the key, oldest first,
\* delete markers included.
BrokerHistory(b, subj) ==
    LET seqs == SortedSeq(SubjectSeqs(b, subj))
    IN  [err |-> IF Len(seqs) = 0 THEN "ErrKeyNotFound" ELSE "nil",
         entries |-> [i \in 1..Len(seqs) |-> Found(b, seqs[i])]]

BrokerPutCountsPerKey(b, subj, data) ==
    [bucket |-> StoreMsg(b, subj, "PUT", data),
     rev |-> Cardinality({i \in 1..Len(b) : b[i].subj = subj}) + 1,
     err |-> "nil"]
\* jetstream.KeyValue.Put.
BrokerPut(b, subj, data) ==
    [bucket |-> StoreMsg(b, subj, "PUT", data), rev |-> Len(b) + 1, err |-> "nil"]

BrokerUpdateUnchecked(b, subj, data, lastRev) == BrokerPut(b, subj, data)
\* jetstream.KeyValue.Update: a put the broker accepts only when last is the
\* sequence of the subject's last entry.
BrokerUpdate(b, subj, data, lastRev) ==
    IF LastSubjectSeq(b, subj) = lastRev
    THEN BrokerPut(b, subj, data)
    ELSE [bucket |-> b, rev |-> 0, err |-> "JSErrCodeStreamWrongLastSequence"]

\* jetstream.KeyValue.Delete: a delete marker is stored for the key.
BrokerDelete(b, subj) ==
    [bucket |-> StoreMsg(b, subj, "DEL", <<>>), rev |-> Len(b) + 1, err |-> "nil"]

(***************************************************************************)
(* KV[T], for T = User.  Each operator gives what the method returns and,  *)
(* for a write, the bucket it leaves.                                      *)
(***************************************************************************)
\* KV.Get.
KVGet(b, key) ==
    LET entry == BrokerGet(b, keyToSubject(key))
        u == UnmarshalUser(entry.data)
    IN  IF entry.err = "ErrKeyNotFound"
        THEN [value |-> ZeroUser, rev |-> 0, ok |-> FALSE, err |-> "nil"]
        ELSE [value |-> u.v, rev |-> entry.rev, ok |-> u.ok,
              err |-> IF u.ok THEN "nil" ELSE "DecodeError"]

\* KV.GetRevision.
KVGetRevision(b, key, revision) ==
    LET entry == BrokerGetRevision(b, keyToSubject(key), revision)
        u == UnmarshalUser(entry.data)
    IN  IF entry.err = "ErrKeyNotFound"
        THEN [value |-> ZeroUser, ok |-> FALSE, err |-> "nil"]
        ELSE [value |-> u.v, ok |-> u.ok,
              err |-> IF u.ok THEN "nil" ELSE "DecodeError"]

\* KV.History: the loop stops at the first entry that does not decode.
KVHistory(b, key) ==
    LET h == BrokerHistory(b, keyToSubject(key))
        n == Len(h.entries)
        bad == {i \in 1..n : ~UnmarshalUser(h.entries[i].data).ok}
        decoded == [i \in 1..n |->
                       IF bad # {} /\ i > CHOOSE x \in bad : \A y \in bad : x <= y
                       THEN ZeroUser
                       ELSE UnmarshalUser(h.entries[i].data).v]
    IN  IF h.err = "ErrKeyNotFound"
        THEN [values |-> <<>>, ok |-> FALSE, err |-> "nil"]
        ELSE IF bad # {}
        THEN [values |-> decoded, ok |-> FALSE, err |-> "DecodeError"]
        ELSE [values |-> decoded, ok |-> TRUE, err |-> "nil"]

\* KV.Put.
KVPut(b, key, value) == BrokerPut(b, keyToSubject(key), MarshalUser(value))

\* KV.Delete.
KVDelete(b, key) == BrokerDelete(b, keyToSubject(key))

ErrOptimisticConcurrencyCheckFailed == "optimistic concurrency check failed"

KVUpdateRetries(b, key, value, lastRev) ==
    LET r == BrokerUpdate(b, keyToSubject(key), MarshalUser(value), lastRev)
    IN  IF r.err = "JSErrCodeStreamWrongLastSequence"
        THEN BrokerPut(b, keyToSubject(key), MarshalUser(value))
        ELSE r
\* KV.Update: one conditional write; the broker's "wrong last sequence"
\* becomes ErrOptimisticConcurrencyCheckFailed.
KVUpdate(b, key, value, lastRev) ==
    LET r == BrokerUpdate(b, keyToSubject(key), MarshalUser(value), lastRev)
    IN  IF r.err = "JSErrCodeStreamWrongLastSequence"
        THEN [bucket |-> r.bucket, rev |-> 0,
              err |-> ErrOptimisticConcurrencyCheckFailed]
        ELSE r

(***************************************************************************)
(* Iterator and the watcher of List.  The watcher's updates channel first  *)
(* carries the last entry of every key, in revision order and without the  *)
(* delete markers, then nil to say that all of them were sent, and after   *)
(* that every entry written while the watcher is subscribed.               *)
(***************************************************************************)
NilUpdate == [nil |-> TRUE, data |-> <<>>]
Update1(data) == [nil |-> FALSE, data |-> data]

\* The revisions a watcher of the whole bucket is sent first.
LastPerSubject(b) ==
    SortedSeq({i \in 1..Len(b) : b[i].kept /\ i = LastSubjectSeq(b, b[i].subj)})

WatchAllWithDeletes(b) ==
    [i \in 1..Len(LastPerSubject(b)) |-> Update1(b[LastPerSubject(b)[i]].data)]
        \o <<NilUpdate>>
\* db.kv.WatchAll(ctx, jetstream.IgnoreDeletes()): what w.Updates() holds
\* once the watcher has received the entries pending at its creation.
WatchAll(b) ==
    LET IsPut(i) == b[i].op = "PUT"
        live == SelectSeq(LastPerSubject(b), IsPut)
    IN  [i \in 1..Len(live) |-> Update1(b[live[i]].data)] \o <<NilUpdate>>

\* The Iterator and what its caller saw: kind is "none" before List,
\* "watch" when WatchAll succeeded and "nowatch" when it failed; done says
\* that Next has returned false, calls counts the Next calls (up to 2),
\* stops the Stop calls (up to 2), released the times Stop unsubscribed the
\* watcher, and stopErr is what the last Stop returned.
Iterator(kind, updates, value, error, ok, done, calls, stopped, stopErr, stops, released) ==
    [kind |-> kind, updates |-> updates, Value |-> value, Error |-> error,
     ok |-> ok, done |-> done, calls |-> calls, stopped |-> stopped,
     stopErr |-> stopErr, stops |-> stops, released |-> released]
NoIterator ==
    Iterator("none", <<>>, ZeroUser, "nil", FALSE, FALSE, 0, FALSE, "nil", 0, 0)

\* The broker sends an entry written to the bucket to the subscribed
\* watcher, which drops delete markers.
Watched(i, b, b2) ==
    IF /\ i.kind = "watch"
       /\ ~i.stopped
       /\ Len(b2) > Len(b)
       /\ b2[Len(b2)].op = "PUT"
    THEN [i EXCEPT !.updates = Append(@, Update1(b2[Len(b2)].data))]
    ELSE i

NextOfFailedWatchHidesError(err) == [value |-> ZeroUser, ok |-> FALSE, err |-> "nil"]
\* List, WatchAll failed: next := func() (T, bool, error) { return t, false, err }
NextOfFailedWatch(err) == [value |-> ZeroUser, ok |-> FALSE, err |-> err]

\* List, WatchAll succeeded: the next closure, given the update it received
\* from the channel.
NextOfWatch(update) ==
    IF update.nil
    THEN [value |-> ZeroUser, ok |-> FALSE, err |-> "nil"]
    ELSE [value |-> UnmarshalUser(update.data).v,
          ok |-> UnmarshalUser(update.data).ok,
          err |-> IF UnmarshalUser(update.data).ok THEN "nil" ELSE "DecodeError"]

(***************************************************************************)
(* The operations on the bucket.  kvres records the operation that         *)
(* returned last: its arguments (arg is the revision given to Update or    *)
(* GetRevision) and its results.                                           *)
(***************************************************************************)
Res(op, key, arg, value, values, rev, ok, err) ==
    [op |-> op, key |-> key, arg |-> arg, value |-> value, values |-> values,
     rev |-> rev, ok |-> ok, err |-> err]
NoResult == Res("none", "", 0, ZeroUser, <<>>, 0, FALSE, "nil")
Idle == [state |-> "idle", key |-> "", value |-> ZeroUser, last |-> 0]

Get ==
    /\ \E key \in Keys :
          LET r == KVGet(bucket, key)
          IN  kvres' = Res("Get", key, 0, r.value, <<>>, r.rev, r.ok, r.err)
    /\ UNCHANGED <<bucket, upd, bvars, lvars>>

GetRevision ==
    /\ \E key \in Keys, revision \in 0..MaxRevs :
          LET r == KVGetRevision(bucket, key, revision)
          IN  kvres' = Res("GetRevision", key, revision, r.value, <<>>, 0,
                           r.ok, r.err)
    /\ UNCHANGED <<bucket, upd, bvars, lvars>>

History ==
    /\ \E key \in Keys :
          LET r == KVHistory(bucket, key)
          IN  kvres' = Res("History", key, 0, ZeroUser, r.values, 0, r.ok, r.err)
    /\ UNCHANGED <<bucket, upd, bvars, lvars>>

Put ==
    /\ Len(bucket) < MaxRevs
    /\ \E key \in Keys, value \in Users :
          LET r == KVPut(bucket, key, value)
          IN  /\ bucket' = r.bucket
              /\ kvres' = Res("Put", key, 0, value, <<>>, r.rev, TRUE, r.err)
    /\ it' = Watched(it, bucket, bucket')
    /\ UNCHANGED <<upd, bvars, snap, emitted>>

Delete ==
    /\ Len(bucket) < MaxRevs
    /\ \E key \in Keys :
          LET r == KVDelete(bucket, key)
          IN  /\ bucket' = r.bucket
              /\ kvres' = Res("Delete", key, 0, ZeroUser, <<>>, 0, TRUE, r.err)
    /\ it' = Watched(it, bucket, bucket')
    /\ UNCHANGED <<upd, bvars, snap, emitted>>

\* KV.Update, from call to return.
Update ==
    /\ Len(bucket) < MaxRevs
    /\ \E key \in Keys, value \in Users, lastRev \in 0..MaxRevs :
          LET r == KVUpdate(bucket, key, value, lastRev)
          IN  /\ bucket' = r.bucket
              /\ kvres' = Res("Update", key, lastRev, value, <<>>, r.rev,
                              r.err = "nil", r.err)
    /\ it' = Watched(it, bucket, bucket')
    /\ UNCHANGED <<upd, bvars, snap, emitted>>

\* The value each caller writes.
CallerValue == [c \in Callers |->
                   [name |-> "john", age |-> IF c = "c1" THEN 42 ELSE 43]]

\* KV.Update of caller c up to the request to the broker: the value is
\* marshalled and the conditional write is on its way.
UpdateCall(c) ==
    /\ upd[c].state = "idle"
    /\ Len(bucket) < MaxRevs
    /\ \E key \in Keys, lastRev \in 0..MaxRevs :
          LET value == CallerValue[c]
          IN  upd' = [upd EXCEPT ![c] = [state |-> "sent", key |-> key,
                                     value |-> value, last |-> lastRev]]
    /\ UNCHANGED <<bucket, kvres, bvars, lvars>>

\* The broker takes the conditional write of caller c and KV.Update returns.
UpdateReturn(c) ==
    /\ upd[c].state = "sent"
    /\ LET r == KVUpdate(bucket, upd[c].key, upd[c].value, upd[c].last)
       IN  /\ Len(r.bucket) <= MaxRevs
           /\ bucket' = r.bucket
           /\ kvres' = Res("Update", upd[c].key, upd[c].last, upd[c].value,
                           <<>>, r.rev, r.err = "nil", r.err)
    /\ upd' = [upd EXCEPT ![c] = Idle]
    /\ it' = Watched(it, bucket, bucket')
    /\ UNCHANGED <<bvars, snap, emitted>>

\* Bytes that are no JSON of a User.
Foreign == <<"name", 42>>

\* Another client of the bucket puts bytes that do not decode into T.
PutForeign ==
    /\ Len(bucket) < MaxRevs
    /\ \E key \in Keys :
          /\ bucket' = BrokerPut(bucket, keyToSubject(key), Foreign).bucket
          /\ it' = Watched(it, bucket, bucket')
    /\ UNCHANGED <<upd, kvres, bvars, snap, emitted>>

\* KV.List: WatchAll succeeds.
List ==
    /\ it.kind = "none"
    /\ it' = [NoIterator EXCEPT !.kind = "watch", !.updates = WatchAll(bucket)]
    /\ snap' = bucket
    /\ UNCHANGED <<bucket, upd, kvres, bvars, emitted>>

WatchError == "WatchError"

\* KV.List: WatchAll returns an error.
ListWatchFails ==
    /\ it.kind = "none"
    /\ it' = [NoIterator EXCEPT !.kind = "nowatch"]
    /\ snap' = bucket
    /\ UNCHANGED <<bucket, upd, kvres, bvars, emitted>>

\* What a Next call leaves in the Iterator and in emitted, given what
\* it.next() returned.
AfterNext(r, rest) ==
    /\ it' = [it EXCEPT !.updates = rest, !.Value = r.value, !.Error = r.err,
                        !.ok = r.ok, !.done = @ \/ ~r.ok,
                        !.calls = Min(@ + 1, 2)]
    /\ emitted' = IF r.ok THEN Append(emitted, r.value) ELSE emitted

\* Iterator.Next.  On a watcher it receives from the updates channel: the
\* call waits while the channel is empty.
IteratorNext ==
    /\ \/ /\ it.kind = "nowatch"
          /\ AfterNext(NextOfFailedWatch(WatchError), <<>>)
       \/ /\ it.kind = "watch"
          /\ ~it.stopped
          /\ it.updates # <<>>
          /\ AfterNext(NextOfWatch(Head(it.updates)), Tail(it.updates))
    /\ UNCHANGED <<bucket, upd, kvres, bvars, snap>>

\* List, WatchAll failed: stop := func() error { return nil }
StopOfFailedWatch == "nil"

\* List, WatchAll succeeded: stop is w.Stop, which unsubscribes the watcher;
\* unsubscribing a subscription that is closed already returns an error.
StopOfWatch(stopped) == IF stopped THEN "ErrBadSubscription" ELSE "nil"

\* Iterator.Stop: it.stop(), each time it is called.
IteratorStop ==
    /\ it.kind \in {"watch", "nowatch"}
    /\ it.stops < 2
    /\ it' = [it EXCEPT !.stopped = TRUE,
                        !.stops = @ + 1,
                        !.stopErr = IF it.kind = "watch"
                                    THEN StopOfWatch(it.stopped)
                                    ELSE StopOfFailedWatch,
                        !.released = IF it.kind = "watch" /\ ~it.stopped
                                     THEN @ + 1 ELSE @]
    /\ UNCHANGED <<bucket, upd, kvres, bvars, snap, emitted>>

Init ==
    /\ stream = <<>>
    /\ nextSeq = 1
    /\ rdq = <<>>
    /\ outstanding = {}
    /\ acked = {}
    /\ batchSize \in BatchSizes
    /\ last = NoRun
    /\ clean = TRUE
    /\ handled = <<>>
    /\ ackOk = {}
    /\ bucket = <<>>
    /\ upd = [c \in Callers |-> Idle]
    /\ kvres = NoResult
    /\ it = NoIterator
    /\ snap = <<>>
    /\ emitted = <<>>

Next ==
    \/ Publish
    \/ PublishGarbage
    \/ ProcessFetchError
    \/ Process
    \/ AckWaitExpire

\* The batch processor over one stream and one durable consumer.
Spec == Init /\ [][Next]_vars

NextKV ==
    \/ Get
    \/ GetRevision
    \/ History
    \/ Put
    \/ Delete
    \/ Update

\* The key/value store, one operation at a time.
SpecKV == Init /\ [][NextKV]_vars

NextKVRace ==
    \/ \E c \in Callers : UpdateCall(c)
    \/ \E c \in Callers : UpdateReturn(c)
    \/ Put

NextList ==
    \/ Put
    \/ Delete
    \/ PutForeign
    \/ List
    \/ ListWatchFails
    \/ IteratorNext
    \/ IteratorStop

\* The bucket, its writers, and one Iterator made by List.
SpecList == Init /\ [][NextList]_vars

\* Callers whose Update calls overlap, and a writer that puts.
SpecKVRace == Init /\ [][NextKVRace]_vars

(***************************************************************************)
(* Properties of Process.                                                  *)
(***************************************************************************)
IsAckOrNak(e) == e.op \in {"Ack", "Nak"}
\* The Ack and Nak calls a run made on message m.
AckCalls(r, m) ==
    Cardinality({i \in 1..Len(r.events) :
                    IsAckOrNak(r.events[i]) /\ r.events[i].msg = m})
IsDecodable(m) == ~IsPoison(m)
\* The place of the handler's invocation among the events of a run.
HandlerAt(r) == CHOOSE i \in 1..Len(r.events) : r.events[i].op = "Handler"
\* The value the publisher was given for the m-th message of the stream.
Published(m) == [Index |-> m - 1]

\* C1: when Process returns nil, every message it fetched received exactly
\* one acknowledgement call, an Ack or a Nak; no message ever receives two;
\* a fetched message is left without any only when Process returns an error.
C1_ResolvedOnSuccess ==
    /\ \A m \in Range(last.fetched) : AckCalls(last, m) <= 1
    /\ last.err = "nil" => \A m \in Range(last.fetched) : AckCalls(last, m) = 1
    /\ (\E m \in Range(last.fetched) : AckCalls(last, m) = 0)
           => last.err \in {"UnmarshalAckError", "HandlerContractError",
                            "AckNakError"}

\* A successful run over a poison message and a decodable one that the
\* handler failed: one Ack and one Nak.
C1_Witness ==
    /\ last.err = "nil"
    /\ Len(last.fetched) = 2
    /\ \E i, j \in 1..Len(last.events) :
          last.events[i].op = "Ack" /\ last.events[j].op = "Nak"

\* C2: the handler is given exactly the decodable messages of the fetched
\* batch, in fetch order, each with the value that was published; a message
\* that does not decode is Acked before the handler is invoked and is not
\* part of the handler's input.
C2_HandlerGetsDecodable ==
    last.called =>
        /\ last.msgs = SelectSeq(last.fetched, IsDecodable)
        /\ Len(last.msgBodies) = Len(last.msgs)
        /\ \A i \in 1..Len(last.msgs) : last.msgBodies[i] = Published(last.msgs[i])
        /\ \A m \in Range(last.fetched) :
              IsPoison(m) =>
                 /\ m \notin Range(last.msgs)
                 /\ \E i \in 1..(HandlerAt(last) - 1) :
                       last.events[i] = Ev("Ack", m, TRUE)

\* A handler invocation on a batch that mixed a poison and a decodable message.
C2_Witness ==
    /\ last.called
    /\ Len(last.fetched) = 2
    /\ Len(last.msgs) = 1
    /\ \E m \in Range(last.fetched) : IsPoison(m)

\* The poison messages whose Ack call returned nil.
PoisonAcked == {m \in ackOk : IsPoison(m)}

\* C3: a message whose decode failed and whose Ack succeeded is not fetched
\* by any later Process invocation (in no state is it part of the batch the
\* next invocation fetches, nor still to be delivered), and no handler is
\* ever given a message that does not decode.
C3_PoisonNeverRedelivered ==
    /\ last.called => \A m \in Range(last.msgs) : IsDecodable(m)
    /\ \A m \in PoisonAcked :
          /\ m \notin Range(Fetch(batchSize))
          /\ m \notin Range(Deliverable) \cup outstanding

\* A Process invocation that fetched a decodable message after an earlier
\* invocation had acknowledged a poison message.
C3_Witness ==
    /\ PoisonAcked # {}
    /\ last.called
    /\ \E m \in PoisonAcked : \A f \in Range(last.fetched) : f > m

\* The last run resolved its batch: the handler returned one outcome per
\* message.
Resolved(r) == r.called /\ Len(r.errs) = Len(r.msgs)
\* The run called op on message m; the call returned nil.
Called(r, op, m) == \E i \in 1..Len(r.events) :
                       r.events[i].op = op /\ r.events[i].msg = m
CalledOk(r, op, m) == Ev(op, m, TRUE) \in Range(r.events)
\* What the next Process invocation does with the batch it fetches, up to
\* the handler's invocation, for the Ack calls in ackFail failing.
NextRun(ackFail) == ProcessRun(Fetch(batchSize), <<>>, ackFail, FALSE)

PublishedValues == [i \in 1..Len(stream) |-> Published(i)]
IsPrefix(s, t) == Len(s) <= Len(t) /\ s = SubSeq(t, 1, Len(s))
\* Every message given to a handler so far was Acked, and the Ack returned nil.
AllAcked == Cardinality(ackOk) = Len(handled)

C6_NoEmptyBatch ==
    /\ (/\ last.err \notin {"none", "FetchError"}
        /\ \A m \in Range(last.fetched) :
              IsPoison(m) /\ Ev("Ack", m, TRUE) \in Range(last.events))
           => last.err = "nil" /\ ~last.called
    /\ last.called => Len(last.msgBodies) > 0

\* A Process invocation whose whole batch was poison, acknowledged, and
\* that returned nil without the handler.
C6_Witness ==
    /\ last.err = "nil"
    /\ ~last.called
    /\ Len(last.fetched) = 2
    /\ \A m \in Range(last.fetched) : IsPoison(m)

(***************************************************************************)
(* Properties of the key/value store.                                      *)
(***************************************************************************)
\* The revision the broker holds as the key's current one: the sequence of
\* the last entry of its subject, 0 when the subject has none.
CurrentRevision(b, key) == LastSubjectSeq(b, keyToSubject(key))
\* The step is a Put or an Update that returned without error.
WriteReturned == kvres'.op \in {"Put", "Update"} /\ kvres'.err = "nil"
GetResult(value, rev) == [value |-> value, rev |-> rev, ok |-> TRUE, err |-> "nil"]
RevResult(value) == [value |-> value, ok |-> TRUE, err |-> "nil"]
RevAbsent == [value |-> ZeroUser, ok |-> FALSE, err |-> "nil"]
IsPutOf(b, r, key) == b[r].subj = keyToSubject(key) /\ b[r].op = "PUT"
NoDeletes(b) == \A i \in 1..Len(b) : b[i].op = "PUT"

\* C7: an Update whose expected revision differs from the key's current
\* revision returns ErrOptimisticConcurrencyCheckFailed and revision 0, and
\* leaves the bucket as it was: Get of the key returns the same value and
\* revision as before, and History of the key returns the same list.
C7_StaleUpdateRejected ==
    [][(/\ kvres'.op = "Update"
        /\ kvres'.arg # CurrentRevision(bucket, kvres'.key))
       => /\ kvres'.err = ErrOptimisticConcurrencyCheckFailed
          /\ kvres'.rev = 0
          /\ bucket' = bucket
          /\ KVGet(bucket', kvres'.key) = KVGet(bucket, kvres'.key)
          /\ KVHistory(bucket', kvres'.key) = KVHistory(bucket, kvres'.key)]_vars

\* A stale Update of a key that has a value was refused.
C7_Witness ==
    /\ kvres.op = "Update"
    /\ kvres.err = ErrOptimisticConcurrencyCheckFailed
    /\ kvres.arg > 0
    /\ KVGet(bucket, kvres.key).ok
    /\ kvres.arg < CurrentRevision(bucket, kvres.key)

GetReturnsLastWrite ==
    /\ (kvres.op \in {"Put", "Update"} /\ kvres.err = "nil")
       => KVGet(bucket, kvres.key) = GetResult(kvres.value, kvres.rev)
    /\ \A key \in Keys :
          LET rev == CurrentRevision(bucket, key)
          IN  (rev > 0 /\ IsPutOf(bucket, rev, key))
              => \E v \in Users :
                    /\ bucket[rev].data = MarshalUser(v)
                    /\ KVGet(bucket, key) = GetResult(v, rev)

\* C9 as stated: GetRevision finds the value written at every revision of
\* the key, whatever was written after it.
C9_Claimed ==
    /\ GetReturnsLastWrite
    /\ \A key \in Keys, r \in 1..Len(bucket) :
          IsPutOf(bucket, r, key)
          => \E v \in Users :
                /\ bucket[r].data = MarshalUser(v)
                /\ KVGetRevision(bucket, key, r) = RevResult(v)

\* C9: Get of a key whose last operation is a successful write returns
\* found, the value of that write and the revision it returned;
\* GetRevision(key, r) returns found and the value written at revision r
\* while r is one of the last HistoryDepth entries of the key, and not
\* found once later entries of the key have pushed it out.
C9_ReadsReturnWrites ==
    /\ GetReturnsLastWrite
    /\ \A key \in Keys, r \in 1..Len(bucket) :
          IsPutOf(bucket, r, key)
          => IF bucket[r].kept
             THEN \E v \in Users :
                     /\ bucket[r].data = MarshalUser(v)
                     /\ KVGetRevision(bucket, key, r) = RevResult(v)
             ELSE KVGetRevision(bucket, key, r) = RevAbsent

\* GetRevision returned the value of a revision that a later write to the
\* key has superseded.
C9_Witness ==
    /\ kvres.op = "GetRevision"
    /\ kvres.ok
    /\ kvres.arg > 0
    /\ kvres.arg < CurrentRevision(bucket, kvres.key)
    /\ IsPutOf(bucket, CurrentRevision(bucket, kvres.key), kvres.key)
    /\ kvres.value # KVGet(bucket, kvres.key).value

Sent(c) == upd[c].state = "sent"
SameIntent(c, d) == upd[c].key = upd[d].key /\ upd[c].last = upd[d].last
UpdateOf(b, c) == KVUpdate(b, upd[c].key, upd[c].value, upd[c].last)

\* C10: of the Updates in flight for one key with one expected revision,
\* equal to the current revision, the one the broker takes first succeeds
\* with the next revision and every other one then returns
\* ErrOptimisticConcurrencyCheckFailed; each call tries its write once, so
\* the bucket gains exactly one entry.  Once an Update has returned a
\* revision, the Updates still in flight with its key and expected revision
\* fail.
C10_OneWinner ==
    /\ \A c \in Callers, d \in Callers :
          (/\ c # d /\ Sent(c) /\ Sent(d) /\ SameIntent(c, d)
           /\ upd[c].last = CurrentRevision(bucket, upd[c].key))
          => LET first == UpdateOf(bucket, c)
                 second == UpdateOf(first.bucket, d)
             IN  /\ first.err = "nil"
                 /\ first.rev = Len(bucket) + 1
                 /\ second.err = ErrOptimisticConcurrencyCheckFailed
                 /\ second.rev = 0
                 /\ second.bucket = first.bucket
                 /\ Len(second.bucket) = Len(bucket) + 1
    /\ (kvres.op = "Update" /\ kvres.err = "nil")
       => \A d \in Callers :
             (Sent(d) /\ upd[d].key = kvres.key /\ upd[d].last = kvres.arg)
             => /\ UpdateOf(bucket, d).err = ErrOptimisticConcurrencyCheckFailed
                /\ UpdateOf(bucket, d).bucket = bucket

\* An Update of a key that had a value has won, and an Update with its key
\* and expected revision is still to reach the broker.
C10_Witness ==
    /\ kvres.op = "Update"
    /\ kvres.err = "nil"
    /\ kvres.arg > 0
    /\ \E d \in Callers :
          Sent(d) /\ upd[d].key = kvres.key /\ upd[d].last = kvres.arg

NeverWritten(b, key) == \A i \in 1..Len(b) : b[i].subj # keyToSubject(key)
IsRead(op) == op \in {"Get", "GetRevision", "History"}

\* C11: for a key that was never written, Get, GetRevision (of any
\* revision, those of other keys included) and History return not found and
\* no error; Get returns revision 0 and History returns no values.
C11_NeverWrittenNotFound ==
    /\ \A key \in Keys :
          NeverWritten(bucket, key)
          => /\ KVGet(bucket, key)
                  = [value |-> ZeroUser, rev |-> 0, ok |-> FALSE, err |-> "nil"]
             /\ \A revision \in 0..(MaxRevs + 1) :
                   KVGetRevision(bucket, key, revision) = RevAbsent
             /\ KVHistory(bucket, key)
                  = [values |-> <<>>, ok |-> FALSE, err |-> "nil"]
    /\ (IsRead(kvres.op) /\ NeverWritten(bucket, kvres.key))
       => /\ ~kvres.ok
          /\ kvres.err = "nil"
          /\ kvres.rev = 0
          /\ kvres.values = <<>>
          /\ kvres.value = ZeroUser

\* GetRevision of a key that was never written was asked for a revision
\* that another key holds, and returned not found.
C11_Witness ==
    /\ kvres.op = "GetRevision"
    /\ NeverWritten(bucket, kvres.key)
    /\ kvres.arg \in 1..Len(bucket)
    /\ bucket[kvres.arg].op = "PUT"
    /\ ~kvres.ok

\* The last operation that changed the key was a Delete.
DeletedLast(b, key) ==
    /\ CurrentRevision(b, key) > 0
    /\ b[CurrentRevision(b, key)].op = "DEL"

\* C12: while the last change of a key is a Delete, Get of the key returns
\* not found, the zero value, revision 0 and no error, whatever was written
\* to the key before and to other keys before or after; the Get that
\* follows a Delete that has just returned does so.
C12_DeletedNotFound ==
    /\ \A key \in Keys :
          DeletedLast(bucket, key)
          => KVGet(bucket, key)
               = [value |-> ZeroUser, rev |-> 0, ok |-> FALSE, err |-> "nil"]
    /\ kvres.op = "Delete"
       => /\ kvres.err = "nil"
          /\ DeletedLast(bucket, kvres.key)
          /\ ~KVGet(bucket, kvres.key).ok
          /\ KVGet(bucket, kvres.key).err = "nil"
    /\ (kvres.op = "Get" /\ DeletedLast(bucket, kvres.key))
       => ~kvres.ok /\ kvres.err = "nil"

\* Get returned not found for a key that was written, then deleted, with a
\* write to another key after the Delete.
C12_Witness ==
    /\ kvres.op = "Get"
    /\ ~kvres.ok
    /\ Len(bucket) = 3
    /\ IsPutOf(bucket, 1, kvres.key)
    /\ bucket[2].subj = keyToSubject(kvres.key)
    /\ bucket[2].op = "DEL"
    /\ bucket[3].subj # keyToSubject(kvres.key)

\* The revisions of every write made to the key, oldest first, whether the
\* bucket still holds them or not.
WritesOf(b, key) == SortedSeq({i \in 1..Len(b) : IsPutOf(b, i, key)})
\* The value given to the write that got revision i.
WrittenValue(b, i) == CHOOSE v \in Users : MarshalUser(v) = b[i].data
\* The key was written and never deleted.
OnlyWritten(b, key) ==
    /\ ~NeverWritten(b, key)
    /\ \A i \in 1..Len(b) : b[i].subj = keyToSubject(key) => b[i].op = "PUT"
\* The values of the last Min(HistoryDepth, n) of the n writes to the key.
RecentValues(b, key) ==
    LET w == WritesOf(b, key)
        n == Len(w)
        m == Min(HistoryDepth, n)
    IN  [i \in 1..m |-> WrittenValue(b, w[n - m + i])]

\* C13: History of a key that was written and never deleted returns found,
\* no error and the values written to the key, oldest first: all of them
\* when at most HistoryDepth were written, the last HistoryDepth otherwise.
C13_HistoryInWriteOrder ==
    /\ \A key \in Keys :
          OnlyWritten(bucket, key)
          => KVHistory(bucket, key)
               = [values |-> RecentValues(bucket, key), ok |-> TRUE, err |-> "nil"]
    /\ (kvres.op = "History" /\ OnlyWritten(bucket, kvres.key))
       => /\ kvres.ok
          /\ kvres.err = "nil"
          /\ kvres.values = RecentValues(bucket, kvres.key)

\* History returned HistoryDepth values, the last two of them different,
\* for a key that was written more often than that.
C13_Witness ==
    /\ kvres.op = "History"
    /\ kvres.ok
    /\ OnlyWritten(bucket, kvres.key)
    /\ Len(WritesOf(bucket, kvres.key)) > HistoryDepth
    /\ Len(kvres.values) = HistoryDepth
    /\ kvres.values[HistoryDepth - 1] # kvres.values[HistoryDepth]

(***************************************************************************)
(* Properties of List and its Iterator.                                    *)
(***************************************************************************)
\* The keys that have a value in bucket b, as Get tells.
LiveKeys(b) == {key \in Keys : BrokerGet(b, keyToSubject(key)).err = "nil"}
\* Every value that Get can return from b decodes into a User.
LiveDecodable(b) == \A key \in LiveKeys(b) : KVGet(b, key).ok
\* The latest value of every live key of b, in the order of their
\* revisions.
LiveValues(b) ==
    LET revs == SortedSeq({KVGet(b, key).rev : key \in LiveKeys(b)})
    IN  [i \in 1..Len(revs) |-> WrittenValue(b, revs[i])]
\* The step is the Next call that returns false for the first time.
FirstFalse == it.kind = "watch" /\ ~it.done /\ it'.done

\* C14: when every live value of the bucket decodes at the time List is
\* called, the Next calls up to the first one that returns false yield the
\* latest value of each key that was live at that time, once each and
\* nothing else, whatever is written meanwhile, and that Next leaves Error
\* unset.
C14_ListYieldsLiveValues ==
    [][(FirstFalse /\ LiveDecodable(snap))
       => /\ emitted' = LiveValues(snap)
          /\ Len(emitted') = Cardinality(LiveKeys(snap))
          /\ it'.Error = "nil"
          /\ ~it'.ok]_vars

\* An iteration ended after one item: the bucket held three entries when
\* List was called, a delete marker the last of them.
C14_Witness ==
    /\ it.kind = "watch"
    /\ it.done
    /\ it.Error = "nil"
    /\ Len(emitted) = 1
    /\ Len(snap) = 3
    /\ snap[3].op = "DEL"
    /\ snap[1].op = "PUT"
    /\ snap[2].op = "PUT"

(***************************************************************************)
(* More properties of Process.                                             *)
(***************************************************************************)
\* The calls of run r from its call of the handler on, the handler's call
\* left out.
AfterHandler(r) == SubSeq(r.events, HandlerAt(r) + 1, Len(r.events))

\* C15: a run whose handler returned more or fewer outcomes than the
\* messages it was given returns the handler contract error, and only such
\* a run does; it makes no call after the handler's, so no message given to
\* the handler gets an Ack or a Nak (or the failure hook), and until the
\* next run each of them is outstanding at the consumer or, its ack wait
\* over, queued for redelivery.
C15_MismatchLeavesBatch ==
    /\ last.err = "HandlerContractError"
       <=> (last.called /\ Len(last.errs) # Len(last.msgs))
    /\ last.err = "HandlerContractError"
       => /\ AfterHandler(last) = <<>>
          /\ \A m \in Range(last.msgs) :
                /\ AckCalls(last, m) = 0
                /\ m \notin acked
                /\ m \in outstanding \/ m \in Range(rdq)

\* A run gave its handler two messages and got one outcome back; their ack
\* wait is over and both are queued for redelivery.
C15_Witness ==
    /\ last.err = "HandlerContractError"
    /\ Len(last.msgs) = 2
    /\ Len(last.errs) = 1
    /\ \A m \in Range(last.msgs) : m \in Range(rdq)

\* The run reached its resolve loop.
Resolving(r) == r.called /\ Len(r.errs) = Len(r.msgs)
\* The Ack and Nak calls of the resolve loop of run r, in order.
ResolveCalls(r) == SelectSeq(AfterHandler(r), IsAckOrNak)

\* C16: the resolve loop of a run calls Ack or Nak once for each message
\* given to the handler, in order, whether earlier calls failed or not; the
\* run returns an error exactly when one of these calls failed, so a run
\* whose handler reported failures and whose Naks all succeeded returns nil.
C16_AllResolvedErrorsJoined ==
    Resolving(last)
    => /\ Len(ResolveCalls(last)) = Len(last.msgs)
       /\ \A i \in 1..Len(last.msgs) : ResolveCalls(last)[i].msg = last.msgs[i]
       /\ last.err \in {"nil", "AckNakError"}
       /\ last.err = "AckNakError"
          <=> \E i \in 1..Len(last.msgs) : ~ResolveCalls(last)[i].ok
       /\ (\A i \in 1..Len(last.msgs) : ResolveCalls(last)[i].ok)
          => last.err = "nil"

\* The Ack of the first message of a run failed, the second message got its
\* Nak, which succeeded, and the run returned an error.
C16_Witness ==
    /\ Resolving(last)
    /\ Len(last.msgs) = 2
    /\ ~ResolveCalls(last)[1].ok
    /\ ResolveCalls(last)[1].op = "Ack"
    /\ ResolveCalls(last)[2].ok
    /\ ResolveCalls(last)[2].op = "Nak"
    /\ last.err = "AckNakError"

(***************************************************************************)
(* More properties of the Iterator.                                        *)
(***************************************************************************)
\* C17 as stated: once Next has returned false on an Iterator, a further
\* Next call does not wait and returns false: on a watcher, the updates
\* channel holds something and what it holds first is no item.
C17_Claimed ==
    (it.done /\ ~it.stopped)
    => /\ it.kind = "watch"
          => /\ it.updates # <<>>
             /\ ~NextOfWatch(Head(it.updates)).ok
       /\ it.kind = "nowatch" => ~NextOfFailedWatch(WatchError).ok

\* Next returned an item after it had returned false.
C17_Witness ==
    /\ it.kind = "watch"
    /\ it.done
    /\ it.ok
    /\ it.calls = 2
    /\ emitted # <<>>

\* C18: the Iterator that List returns when the watch cannot be
\* established never yields an item: each Next call, before or after Stop,
\* returns false and sets Error to the error of WatchAll, and Stop returns
\* nil.
C18_FailedWatchIterator ==
    it.kind = "nowatch"
    => /\ emitted = <<>>
       /\ it.calls > 0
          => /\ ~it.ok
             /\ it.done
             /\ it.Error = WatchError
             /\ it.Value = ZeroUser
       /\ it.stopped => it.stopErr = "nil"
       /\ NextOfFailedWatch(WatchError)
            = [value |-> ZeroUser, ok |-> FALSE, err |-> WatchError]

\* Next was called twice and Stop once on the Iterator of a failed watch,
\* over a bucket that has a live value.
C18_Witness ==
    /\ it.kind = "nowatch"
    /\ it.calls = 2
    /\ it.stopped
    /\ it.Error = WatchError
    /\ LiveKeys(bucket) # {}

\* A call of a run: the Ack of a poison message that failed.
IsFailedPoisonAck(e) == e.op = "Ack" /\ ~e.ok /\ IsPoison(e.msg)
\* The place of message m in the batch that run r fetched.
PlaceIn(r, m) == CHOOSE i \in 1..Len(r.fetched) : r.fetched[i] = m

\* C19: a run in which the Ack of a poison message failed returns the error
\* that joins the decode error and the Ack error, and only such a run does;
\* that Ack is its last call: the handler is not invoked, the decodable
\* messages fetched before the poison message and all messages fetched
\* after it get no Ack and no Nak, and the calls before it are the Acks of
\* poison messages fetched earlier.
C19_PoisonAckFailureAborts ==
    /\ last.err = "UnmarshalAckError"
       <=> \E i \in 1..Len(last.events) : IsFailedPoisonAck(last.events[i])
    /\ last.err = "UnmarshalAckError"
       => LET n == Len(last.events)
              at == PlaceIn(last, last.events[n].msg)
          IN  /\ IsFailedPoisonAck(last.events[n])
              /\ ~last.called
              /\ \A i \in 1..(n - 1) :
                    /\ last.events[i].op = "Ack"
                    /\ last.events[i].ok
                    /\ IsPoison(last.events[i].msg)
                    /\ PlaceIn(last, last.events[i].msg) < at
              /\ \A j \in 1..Len(last.fetched) :
                    (j > at \/ IsDecodable(last.fetched[j]))
                    => /\ AckCalls(last, last.fetched[j]) = 0
                       /\ last.fetched[j] \notin acked
              /\ \A j \in 1..Len(last.msgs) :
                    PlaceIn(last, last.msgs[j]) < at

\* A run fetched a decodable message and then a poison message whose Ack
\* failed.
C19_Witness ==
    /\ last.err = "UnmarshalAckError"
    /\ Len(last.fetched) = 2
    /\ IsDecodable(last.fetched[1])
    /\ IsPoison(last.fetched[2])
    /\ Len(last.msgs) = 1

IsHook(e) == e.op = "Hook"
NotHook(e) == e.op # "Hook"
HookCalls(r, m) ==
    Cardinality({i \in 1..Len(r.events) : IsHook(r.events[i]) /\ r.events[i].msg = m})
\* The messages whose Ack or Nak failed in run r.
FailedCalls(r) ==
    {r.events[i].msg : i \in {j \in 1..Len(r.events) : ~r.events[j].ok}}
\* The run that r would have been with the failure hook set, or not set.
SameRun(r, hook) == ProcessRun(r.fetched, r.errs, FailedCalls(r), hook)

\* C20: in the resolve loop a message gets an Ack when its outcome is nil
\* and a Nak when it is an error, never both; the failure hook, when set, is
\* called once for each error outcome, with its message and just before the
\* Nak, and never for a nil outcome; with and without the hook the run
\* makes the same Ack and Nak calls in the same order and returns the same.
C20_OutcomeDecidesHookObserves ==
    Resolving(last)
    => /\ \A i \in 1..Len(last.msgs) :
             /\ ResolveCalls(last)[i].op
                  = (IF last.errs[i] = "nil" THEN "Ack" ELSE "Nak")
             /\ AckCalls(last, last.msgs[i]) = 1
             /\ last.errs[i] = "nil" => HookCalls(last, last.msgs[i]) = 0
       /\ last \in {SameRun(last, TRUE), SameRun(last, FALSE)}
       /\ SelectSeq(SameRun(last, TRUE).events, NotHook)
            = SameRun(last, FALSE).events
       /\ SelectSeq(SameRun(last, FALSE).events, IsHook) = <<>>
       /\ SameRun(last, TRUE).err = SameRun(last, FALSE).err
       /\ LET ev == SameRun(last, TRUE).events
          IN  /\ \A i \in 1..Len(last.msgs) :
                    last.errs[i] # "nil"
                    => Cardinality({j \in 1..Len(ev) :
                                       IsHook(ev[j]) /\ ev[j].msg = last.msgs[i]}) = 1
              /\ \A j \in 1..Len(ev) :
                    IsHook(ev[j])
                    => /\ j < Len(ev)
                       /\ ev[j + 1].op = "Nak"
                       /\ ev[j + 1].msg = ev[j].msg

\* A run with the failure hook set resolved two messages: an Ack for the
\* first, the hook and a Nak for the second.
C20_Witness ==
    /\ Resolving(last)
    /\ Len(last.msgs) = 2
    /\ last.errs = <<"nil", "err">>
    /\ HookCalls(last, last.msgs[1]) = 0
    /\ HookCalls(last, last.msgs[2]) = 1
    /\ last.err = "nil"

\* C21 as stated: whenever Stop is called on an Iterator, before any Next,
\* after Next has returned false or after an earlier Stop, it returns no
\* error, and all Stop calls together release the watcher at most once.
C21_Claimed ==
    /\ it.released <= 1
    /\ it.stops > 0 => it.stopErr = "nil"

\* Stop was called twice on the Iterator of a watcher before any Next: the
\* watcher was released once and the second Stop returned an error.
C21_Witness ==
    /\ it.kind = "watch"
    /\ it.calls = 0
    /\ it.stops = 2
    /\ it.released = 1
    /\ it.stopErr = "ErrBadSubscription"

\* The step is a Put, an Update or a Delete that returned, with or without
\* an error.
Changing == kvres'.op \in {"Put", "Update", "Delete"}

\* C22: a Put, an Update or a Delete of one key, failed or not, leaves Get
\* of every other key (found, value, revision), its History and its current
\* revision at the broker as they were; the current revision of a key
\* changes only in a step that wrote or deleted that key without error, and
\* then it grows.
C22_OtherKeysUntouched ==
    [][/\ Changing
          => \A k2 \in Keys \ {kvres'.key} :
                /\ KVGet(bucket', k2) = KVGet(bucket, k2)
                /\ KVHistory(bucket', k2) = KVHistory(bucket, k2)
                /\ CurrentRevision(bucket', k2) = CurrentRevision(bucket, k2)
       /\ \A key \in Keys :
             CurrentRevision(bucket', key) # CurrentRevision(bucket, key)
             => /\ Changing
                /\ kvres'.key = key
                /\ kvres'.err = "nil"
                /\ CurrentRevision(bucket', key) > CurrentRevision(bucket, key)]_vars

\* A key was deleted while the other key had a value and a history of two
\* entries.
C22_Witness ==
    /\ kvres.op = "Delete"
    /\ Len(bucket) = 3
    /\ \E k2 \in Keys \ {kvres.key} :
          /\ KVGet(bucket, k2).ok
          /\ KVGet(bucket, k2).rev = 2
          /\ Len(KVHistory(bucket, k2).values) = 2

\* The places of the calls of the handler among the calls of run r.
HandlerCalls(r) == {i \in 1..Len(r.events) : r.events[i].op = "Handler"}

\* C23: the calls of one run are in this order: the Acks of its poison
\* messages; then the handler, once at most; then, for the decodable
\* messages in the order they were fetched, one Ack or Nak each, with the
\* failure hook, when it is called for a message, just before that
\* message's Nak.  No decodable message gets a call before the handler's,
\* and no poison message gets one after it.
C23_CallsInOrder ==
    LET ev == last.events
        n == Len(ev)
    IN  /\ Cardinality(HandlerCalls(last)) = (IF last.called THEN 1 ELSE 0)
        /\ \A i \in 1..n :
              (IsAckOrNak(ev[i]) /\ IsPoison(ev[i].msg))
              => /\ ev[i].op = "Ack"
                 /\ \A h \in HandlerCalls(last) : i < h
        /\ \A i \in 1..n :
              ((IsAckOrNak(ev[i]) \/ IsHook(ev[i])) /\ IsDecodable(ev[i].msg))
              => \E h \in HandlerCalls(last) : h < i
        /\ \A i \in 1..n, j \in 1..n :
              (/\ i < j
               /\ IsAckOrNak(ev[i]) /\ IsDecodable(ev[i].msg)
               /\ IsAckOrNak(ev[j]) /\ IsDecodable(ev[j].msg))
              => PlaceIn(last, ev[i].msg) < PlaceIn(last, ev[j].msg)
        /\ \A i \in 1..n :
              IsHook(ev[i])
              => /\ \E j \in (i + 1)..n :
                       ev[j].op = "Nak" /\ ev[j].msg = ev[i].msg
                 /\ \A j \in 1..i : ~(IsAckOrNak(ev[j]) /\ ev[j].msg = ev[i].msg)

\* A run fetched a poison message and a decodable one: it acknowledged the
\* first, invoked the handler, called the failure hook and sent the Nak.
C23_Witness ==
    /\ Len(last.events) = 4
    /\ last.events[1].op = "Ack"
    /\ IsPoison(last.events[1].msg)
    /\ last.events[2].op = "Handler"
    /\ last.events[3].op = "Hook"
    /\ last.events[4].op = "Nak"
    /\ last.events[4].msg = last.events[3].msg

====
